---- MODULE Spec2Model ----
(***************************************************************************)
(* TypeWho: keystroke-dynamics identification.                             *)
(*                                                                         *)
(* The module models                                                       *)
(*   - the core  (lib/typing-analysis: calculateTypingPattern and          *)
(*     comparePatterns),                                                   *)
(*   - the App component (capture buffer, profile store, prediction),      *)
(*   - the HTTP service (/api/analyze, /api/predict),                      *)
(* each translated from its source.                                        *)
(*                                                                         *)
(* Numbers.  JavaScript numbers are IEEE doubles.  A number is modelled as *)
(* a record [k, v]: k = "fin" with v the value in units of 1/SCALE         *)
(* (decimal fixed point, results rounded to the nearest unit), k = "inf"   *)
(* with v the sign, or k = "nan".  The operators below follow the IEEE     *)
(* rules for NaN and the infinities, which is what the guards of the code  *)
(* do or do not protect against; finite results are exact up to 1/SCALE.   *)
(***************************************************************************)
EXTENDS Integers, Sequences, FiniteSets, TLC

SCALE == 10 * 10 * 10

Fin(x) == [k |-> "fin", v |-> x]
NaN == [k |-> "nan", v |-> 0]
Infinity == [k |-> "inf", v |-> 1]
NegInfinity == [k |-> "inf", v |-> -1]
Num(n) == Fin(n * SCALE)
Zero == Fin(0)
One == Fin(SCALE)

IsNaN(a) == a.k = "nan"
IsFin(a) == a.k = "fin"
IsInf(a) == a.k = "inf"
Sgn(x) == IF x > 0 THEN 1 ELSE IF x < 0 THEN -1 ELSE 0
AbsInt(x) == IF x < 0 THEN -x ELSE x

\* round(p * q / r) for integers, r > 0, p, q >= 0, without forming p * q when
\* it would not fit: p = (p \div r) * r + (p % r).
MulDivNat(p, q, r) ==
  (p \div r) * q + (((p % r) * q) + (r \div 2)) \div r

MulDiv(p, q, r) ==
  Sgn(p) * Sgn(q) * Sgn(r) * MulDivNat(AbsInt(p), AbsInt(q), AbsInt(r))

Neg(a) == IF IsNaN(a) THEN NaN ELSE [k |-> a.k, v |-> -a.v]

\* a + b
Add(a, b) ==
  IF IsNaN(a) \/ IsNaN(b) THEN NaN
  ELSE IF IsInf(a) /\ IsInf(b) THEN (IF a.v = b.v THEN a ELSE NaN)
  ELSE IF IsInf(a) THEN a
  ELSE IF IsInf(b) THEN b
  ELSE Fin(a.v + b.v)

\* a - b
Sub(a, b) == Add(a, Neg(b))

\* a * b
Mul(a, b) ==
  IF IsNaN(a) \/ IsNaN(b) THEN NaN
  ELSE IF IsInf(a) \/ IsInf(b)
       THEN (IF a.v = 0 \/ b.v = 0 THEN NaN
             ELSE [k |-> "inf", v |-> Sgn(a.v) * Sgn(b.v)])
  ELSE Fin(MulDiv(a.v, b.v, SCALE))

\* a / b   (0/0 and inf/inf are NaN, x/0 is an infinity, x/inf is 0)
Div(a, b) ==
  IF IsNaN(a) \/ IsNaN(b) THEN NaN
  ELSE IF IsInf(a) THEN (IF IsInf(b) THEN NaN
                         ELSE [k |-> "inf", v |-> a.v * (IF b.v < 0 THEN -1 ELSE 1)])
  ELSE IF IsInf(b) THEN Zero
  ELSE IF b.v = 0 THEN (IF a.v = 0 THEN NaN ELSE [k |-> "inf", v |-> Sgn(a.v)])
  ELSE Fin(MulDiv(a.v, SCALE, b.v))

\* a < b, a > b, a >= b: every comparison with NaN is false
Lt(a, b) ==
  IF IsNaN(a) \/ IsNaN(b) THEN FALSE
  ELSE IF IsInf(a) THEN a.v < 0 /\ ~(IsInf(b) /\ b.v < 0)
  ELSE IF IsInf(b) THEN b.v > 0
  ELSE a.v < b.v
Gt(a, b) == Lt(b, a)
Ge(a, b) == ~IsNaN(a) /\ ~IsNaN(b) /\ ~Lt(a, b)
Le(a, b) == Ge(b, a)

\* Math.min, Math.max, Math.abs: NaN if an argument is NaN
MathMin(a, b) == IF IsNaN(a) \/ IsNaN(b) THEN NaN ELSE IF Lt(b, a) THEN b ELSE a
MathMax(a, b) == IF IsNaN(a) \/ IsNaN(b) THEN NaN ELSE IF Gt(b, a) THEN b ELSE a
MathAbs(a) == IF IsNaN(a) THEN NaN ELSE [k |-> a.k, v |-> AbsInt(a.v)]

\* floor of the square root of n >= 0, by bisection on [lo, hi)
RECURSIVE ISqrtIn(_, _, _)
ISqrtIn(n, lo, hi) ==
  IF hi - lo <= 1 THEN lo
  ELSE LET mid == (lo + hi) \div 2
       IN IF mid * mid <= n THEN ISqrtIn(n, mid, hi) ELSE ISqrtIn(n, lo, mid)
ISqrt(n) ==
  LET r == ISqrtIn(n, 0, 46341)
  IN IF n - r * r > r THEN r + 1 ELSE r

\* Math.sqrt
MathSqrt(a) ==
  IF IsNaN(a) THEN NaN
  ELSE IF IsInf(a) THEN (IF a.v > 0 THEN a ELSE NaN)
  ELSE IF a.v < 0 THEN NaN
  ELSE IF a.v <= 2000000 THEN Fin(ISqrt(a.v * SCALE))
  ELSE Fin(10 * ISqrt(a.v * 10))

\* Math.pow(a, 0.5)
PowHalf(a) == IF IsInf(a) THEN Infinity ELSE MathSqrt(a)

\* e^(-n) in units of 1/SCALE for whole n, and the series of e^(-f), 0 <= f < 1
ExpNegWhole(n) ==
  IF n > 7 THEN 0 ELSE <<1000, 368, 135, 50, 18, 7, 2, 1>>[n + 1]
RECURSIVE ExpSeries(_, _, _)
ExpSeries(f, term, i) ==
  IF i > 8 \/ term = 0 THEN 0
  ELSE term + ExpSeries(f, -MulDiv(term, f, i * SCALE), i + 1)
\* e^(-x), x >= 0 in units of 1/SCALE
ExpNeg(x) ==
  MulDiv(ExpNegWhole(x \div SCALE), ExpSeries(x % SCALE, SCALE, 1), SCALE)

\* Math.exp
MathExp(a) ==
  IF IsNaN(a) THEN NaN
  ELSE IF IsInf(a) THEN (IF a.v > 0 THEN Infinity ELSE Zero)
  ELSE IF a.v <= 0 THEN Fin(ExpNeg(-a.v))
  ELSE Div(One, Fin(ExpNeg(a.v)))

(***************************************************************************)
(* Array helpers with JavaScript's semantics.                              *)
(***************************************************************************)
Min2(a, b) == IF a < b THEN a ELSE b
Max2(a, b) == IF a > b THEN a ELSE b

\* Array.prototype.slice(start, end) on 0-based indices: a negative index
\* counts from the end, and -0 is 0.
RelIndex(i, len) == IF i < 0 THEN Max2(len + i, 0) ELSE Min2(i, len)
JsSlice(s, start, end) ==
  LET from == RelIndex(start, Len(s))
      to == RelIndex(end, Len(s))
  IN IF to <= from THEN <<>> ELSE SubSeq(s, from + 1, to)
\* slice(start, undefined): to the end of the array
JsSliceFrom(s, start) == JsSlice(s, start, Len(s))

\* Loops over an array are written by halving the index range, so that the
\* depth of the evaluation grows with the logarithm of the length.

\* reduce((a, b) => a + b, 0) over integers
RECURSIVE SumRange(_, _, _)
SumRange(s, lo, hi) ==
  IF lo > hi THEN 0
  ELSE IF lo = hi THEN s[lo]
  ELSE LET mid == (lo + hi) \div 2
       IN SumRange(s, lo, mid) + SumRange(s, mid + 1, hi)
SumSeq(s) == SumRange(s, 1, Len(s))

\* sort((a, b) => a - b) of numbers: position i holds the value v with fewer
\* than i elements below it and at least i elements not above it.
SortAsc(s) ==
  [i \in 1..Len(s) |->
     CHOOSE v \in {s[j] : j \in 1..Len(s)} :
       /\ Cardinality({j \in 1..Len(s) : s[j] < v}) < i
       /\ i <= Cardinality({j \in 1..Len(s) : s[j] <= v})]

(***************************************************************************)
(* Key events (types.ts).  A key is a string: a single character, or a     *)
(* named key such as "Backspace" or "Enter".                                *)
(***************************************************************************)
NoModifiers == [ctrl |-> FALSE, alt |-> FALSE, shift |-> FALSE, meta |-> FALSE]
ShiftOnly == [ctrl |-> FALSE, alt |-> FALSE, shift |-> TRUE, meta |-> FALSE]

KeyEvent(key, timestamp, timeSinceLast, modifiers) ==
  [key |-> key, timestamp |-> timestamp, timeSinceLast |-> timeSinceLast,
   modifiers |-> modifiers]

\* /[A-Z]/ and /[.,!?;:'"]/
CapitalKeys ==
  {"A", "B", "C", "D", "E", "F", "G", "H", "I", "J", "K", "L", "M",
   "N", "O", "P", "Q", "R", "S", "T", "U", "V", "W", "X", "Y", "Z"}
PunctuationKeys == {".", ",", "!", "?", ";", ":", "'", "\""}

\* Object.values(event.modifiers).some(v => v)
AnyModifier(event) ==
  event.modifiers.ctrl \/ event.modifiers.alt \/ event.modifiers.shift
    \/ event.modifiers.meta

EmptyMap == [key \in {} |-> 0]
\* obj[key] = value
MapPut(map, key, value) ==
  [x \in DOMAIN map \cup {key} |-> IF x = key THEN value ELSE map[x]]

(***************************************************************************)
(* calculateTypingPattern (lib/typing-analysis).                           *)
(***************************************************************************)
DefaultPattern ==
  [averageSpeed |-> Zero, keyPressDistribution |-> EmptyMap,
   modifierUsage |-> EmptyMap, timingPatterns |-> <<>>,
   specialKeyFrequency |-> EmptyMap, backspaceFrequency |-> Zero,
   averageWordLength |-> Zero, rhythmConsistency |-> Zero,
   modifierFrequency |-> Zero, capitalFrequency |-> Zero,
   punctuationFrequency |-> Zero, burstSpeed |-> Zero,
   pauseFrequency |-> Zero, speedVariability |-> Zero,
   keyPressForce |-> Zero, errorRate |-> Zero]

\* array[index] on a 0-based index, used as a number: undefined acts as NaN
ArrayGet(s, index) == IF index + 1 \in 1..Len(s) THEN Num(s[index + 1]) ELSE NaN

\* intervals.reduce((acc, val) => acc + Math.pow(val - mean, 2), 0)
RECURSIVE SquaredDeviationsRange(_, _, _, _)
SquaredDeviationsRange(intervals, mean, lo, hi) ==
  IF lo > hi THEN Zero
  ELSE IF lo = hi THEN LET d == Sub(Num(intervals[lo]), mean) IN Mul(d, d)
  ELSE LET mid == (lo + hi) \div 2
       IN Add(SquaredDeviationsRange(intervals, mean, lo, mid),
              SquaredDeviationsRange(intervals, mean, mid + 1, hi))
SquaredDeviations(intervals, mean) ==
  SquaredDeviationsRange(intervals, mean, 1, Len(intervals))

\* the loop over the window positions i = lo .. hi (0-based): the least
\* window average, starting from minBurst = Infinity
RECURSIVE BurstLoop(_, _, _, _)
BurstLoop(intervals, windowSize, lo, hi) ==
  IF lo > hi THEN Infinity
  ELSE IF lo = hi
       THEN LET windowAvg ==
                  Div(Num(SumSeq(JsSlice(intervals, lo, lo + windowSize))),
                      Num(windowSize))
            IN MathMin(Infinity, windowAvg)
  ELSE LET mid == (lo + hi) \div 2
       IN MathMin(BurstLoop(intervals, windowSize, lo, mid),
                  BurstLoop(intervals, windowSize, mid + 1, hi))

\* the counters of the single pass over the events
InitialCounters ==
  [wordBuffer |-> <<>>, wordLengths |-> <<>>, modifierCount |-> 0,
   capitalCount |-> 0, punctuationCount |-> 0, backspaceCount |-> 0,
   totalChars |-> 0, keyDistribution |-> EmptyMap, modifierUsage |-> EmptyMap]

\* the body of events.forEach(event => ...)
CountEvent(c, event) ==
  LET mod == AnyModifier(event)
      single == Len(event.key) = 1
      c1 == [c EXCEPT
               !.modifierCount = IF mod THEN @ + 1 ELSE @,
               !.modifierUsage = IF mod /\ event.timeSinceLast > 0
                                 THEN MapPut(@, event.key, event.timeSinceLast)
                                 ELSE @]
      c2 == IF ~single THEN c1
            ELSE [c1 EXCEPT
                    !.totalChars = @ + 1,
                    !.keyDistribution =
                       MapPut(@, event.key,
                              (IF event.key \in DOMAIN @ THEN @[event.key] ELSE 0) + 1),
                    !.capitalCount = IF event.key \in CapitalKeys THEN @ + 1 ELSE @,
                    !.punctuationCount =
                       IF event.key \in PunctuationKeys THEN @ + 1 ELSE @,
                    !.wordLengths =
                       IF (event.key = " " \/ event.key = "Enter")
                            /\ Len(c1.wordBuffer) > 0
                       THEN Append(@, Len(c1.wordBuffer)) ELSE @,
                    !.wordBuffer =
                       IF event.key = " " \/ event.key = "Enter"
                       THEN (IF Len(@) > 0 THEN <<>> ELSE @)
                       ELSE Append(@, event.key)]
  IN IF event.key = "Backspace"
     THEN [c2 EXCEPT
             !.backspaceCount = @ + 1,
             !.wordBuffer = IF Len(@) > 0 THEN SubSeq(@, 1, Len(@) - 1) ELSE @]
     ELSE c2

\* events.forEach over the events lo .. hi, from the counters c
RECURSIVE CountEvents(_, _, _, _)
CountEvents(events, lo, hi, c) ==
  IF lo > hi THEN c
  ELSE IF lo = hi THEN CountEvent(c, events[lo])
  ELSE LET mid == (lo + hi) \div 2
           first == CountEvents(events, lo, mid, c)
       IN IF first.totalChars >= 0 THEN CountEvents(events, mid + 1, hi, first)
          ELSE first

\* lines 139-142: (count + alpha) / (totalKeyPresses + alpha * vocabSize)
Smoothed_NoVocab(count, totalKeyPresses, vocabSize) ==
  Div(Add(Num(count), Fin(SCALE \div 10)), Num(totalKeyPresses))

Smoothed(count, totalKeyPresses, vocabSize) ==
  Div(Add(Num(count), Fin(SCALE \div 10)),
      Add(Num(totalKeyPresses), Mul(Fin(SCALE \div 10), Num(vocabSize))))

\* lines 57-162: the pattern, from the intervals, the sorted intervals, the
\* average speed and the counters c of the pass over the events
PatternOf(events, intervals, sortedIntervals, averageSpeed, c) ==
    LET mean == averageSpeed
        variance == Div(SquaredDeviations(intervals, mean), Num(Len(intervals)))
        rhythmConsistency == Div(MathSqrt(variance), mean)
        q1 == ArrayGet(sortedIntervals, Len(sortedIntervals) \div 4)
        q3 == ArrayGet(sortedIntervals, (3 * Len(sortedIntervals)) \div 4)
        speedVariability == Div(Sub(q3, q1), averageSpeed)
        pauseThreshold == Mul(averageSpeed, Num(2))
        pauses == {i \in 1..Len(intervals) : Gt(Num(intervals[i]), pauseThreshold)}
        pauseFrequency == Div(Num(Cardinality(pauses)), Num(Len(intervals)))
        windowSize == Max2(5, Len(intervals) \div 5)
        burstSpeed ==
          BurstLoop(intervals, windowSize, 0, Len(intervals) - windowSize)
        wordLengths == IF Len(c.wordBuffer) > 0
                       THEN Append(c.wordLengths, Len(c.wordBuffer))
                       ELSE c.wordLengths
        totalKeyPresses == c.totalChars
        vocabSize == Cardinality(DOMAIN c.keyDistribution)
        keyPressDistribution ==
          [key \in DOMAIN c.keyDistribution |->
             Smoothed(c.keyDistribution[key], totalKeyPresses, vocabSize)]
        normalizedBackspaceRate ==
          Div(Num(c.backspaceCount), Num(c.totalChars + c.backspaceCount))
        errorRate == Mul(normalizedBackspaceRate, Add(One, speedVariability))
        sortedLengths == SortAsc(wordLengths)
        trimCount == Len(sortedLengths) \div 10
        trimmedLengths ==
          IF trimCount = 0 THEN JsSliceFrom(sortedLengths, trimCount)
          ELSE JsSlice(sortedLengths, trimCount, -trimCount)
        averageWordLength ==
          IF Len(wordLengths) > 0
          THEN Div(Num(SumSeq(trimmedLengths)), Num(Len(trimmedLengths)))
          ELSE Zero
    IN [averageSpeed |-> averageSpeed,
        keyPressDistribution |-> keyPressDistribution,
        modifierUsage |-> c.modifierUsage,
        timingPatterns |-> intervals,
        specialKeyFrequency |-> EmptyMap,
        backspaceFrequency |->
          IF c.totalChars > 0 THEN Div(Num(c.backspaceCount), Num(c.totalChars)) ELSE Zero,
        averageWordLength |-> averageWordLength,
        rhythmConsistency |-> rhythmConsistency,
        modifierFrequency |->
          IF Len(events) > 0 THEN Div(Num(c.modifierCount), Num(Len(events))) ELSE Zero,
        capitalFrequency |->
          IF c.totalChars > 0 THEN Div(Num(c.capitalCount), Num(c.totalChars)) ELSE Zero,
        punctuationFrequency |->
          IF c.totalChars > 0 THEN Div(Num(c.punctuationCount), Num(c.totalChars)) ELSE Zero,
        burstSpeed |-> burstSpeed,
        pauseFrequency |-> pauseFrequency,
        speedVariability |-> speedVariability,
        keyPressForce |-> Zero,
        errorRate |-> errorRate]

\* lines 47-162: the pattern of a sequence that passed the length test
ExtractPattern(events) ==
  LET intervals == [i \in 1..(Len(events) - 1) |-> events[i + 1].timeSinceLast]
      sortedIntervals == SortAsc(intervals)
      trimAmount == Len(sortedIntervals) \div 10
      trimmedIntervals == JsSlice(sortedIntervals, trimAmount, -trimAmount)
  IN PatternOf(events, intervals, sortedIntervals,
               Div(Num(SumSeq(trimmedIntervals)), Num(Len(trimmedIntervals))),
               CountEvents(events, 1, Len(events), InitialCounters))

calculateTypingPattern_NoShortReturn(events) ==
  IF Len(events) < 1 THEN DefaultPattern ELSE ExtractPattern(events)

calculateTypingPattern(events) ==
  IF Len(events) < 2 THEN DefaultPattern ELSE ExtractPattern(events)

(***************************************************************************)
(* comparePatterns (lib/typing-analysis).                                  *)
(***************************************************************************)
\* Math.max(metric1, metric2, 1)
MathMax3(a, b, c) == MathMax(MathMax(a, b), c)

\* getWeight: baseWeight * (0.5 + 0.5 * stability)
getWeight(metric1, metric2, baseWeight) ==
  LET stability == Sub(One, Div(MathAbs(Sub(metric1, metric2)),
                                MathMax3(metric1, metric2, One)))
      half == Fin(SCALE \div 2)
  IN Mul(baseWeight, Add(half, Mul(half, stability)))

baseWeights ==
  [speed |-> Fin((3 * SCALE) \div 10), keyDistribution |-> Fin(SCALE \div 4),
   rhythm |-> Fin(SCALE \div 5), timing |-> Fin((15 * SCALE) \div 100),
   style |-> Fin(SCALE \div 10)]

\* pattern.keyPressDistribution[key] || 0
FreqOrZero(pattern, key) ==
  IF key \in DOMAIN pattern.keyPressDistribution
  THEN (IF IsNaN(pattern.keyPressDistribution[key]) THEN Zero
        ELSE pattern.keyPressDistribution[key])
  ELSE Zero

\* the body of allKeys.forEach(key => ...), lines 196-204, on the running sums
KeyDistStep(sums, freq1, freq2) ==
  LET keyWeight == MathMax(freq1, freq2)
      similarity ==
        Sub(One, Div(MathAbs(Sub(freq1, freq2)),
                     MathMax3(freq1, freq2, Fin(SCALE \div 100))))
  IN IF Gt(freq1, Zero) \/ Gt(freq2, Zero)
     THEN [similarity |-> Add(sums.similarity, Mul(similarity, keyWeight)),
           totalWeight |-> Add(sums.totalWeight, keyWeight)]
     ELSE sums

\* allKeys.forEach(key => ...): the two running sums, from sums
RECURSIVE KeyDistSums(_, _, _, _)
KeyDistSums(keys, pattern1, pattern2, sums) ==
  IF keys = {} THEN sums
  ELSE LET key == CHOOSE x \in keys : TRUE
           \* the sums after this key are computed before the next key is taken
           Rest(next) ==
             IF next.totalWeight.k = "" THEN next
             ELSE KeyDistSums(keys \ {key}, pattern1, pattern2, next)
       IN Rest(KeyDistStep(sums, FreqOrZero(pattern1, key),
                           FreqOrZero(pattern2, key)))

KeyDistSimilarity_Unguarded(sums) == Div(sums.similarity, sums.totalWeight)

\* line 207
KeyDistSimilarity(sums) ==
  IF Gt(sums.totalWeight, Zero) THEN Div(sums.similarity, sums.totalWeight) ELSE Zero

\* Object.keys(pattern.keyPressDistribution).length
VocabSize(pattern) == Cardinality(DOMAIN pattern.keyPressDistribution)

confidenceMultiplier_Unscaled(pattern1, pattern2) == One

\* the confidence adjustment of lines 251-256
confidenceMultiplier(pattern1, pattern2) ==
  MathMin(One,
          Mul(Mul(MathSqrt(Div(Num(VocabSize(pattern1)), Num(20))),
                  MathSqrt(Div(Num(VocabSize(pattern2)), Num(20)))),
              Sub(One, MathAbs(Sub(pattern1.errorRate, pattern2.errorRate)))))

\* the five sub-scores and their adaptive weights
SubScores(pattern1, pattern2) ==
  LET speedRatio == Div(MathMin(pattern1.averageSpeed, pattern2.averageSpeed),
                        MathMax(pattern1.averageSpeed, pattern2.averageSpeed))
      allKeys == DOMAIN pattern1.keyPressDistribution
                   \cup DOMAIN pattern2.keyPressDistribution
      burstSpeedSimilarity ==
        Div(MathMin(pattern1.burstSpeed, pattern2.burstSpeed),
            MathMax(pattern1.burstSpeed, pattern2.burstSpeed))
      pauseSimilarity ==
        Sub(One, MathAbs(Sub(pattern1.pauseFrequency, pattern2.pauseFrequency)))
      modifierSimilarity ==
        Sub(One, MathAbs(Sub(pattern1.modifierFrequency, pattern2.modifierFrequency)))
      capitalSimilarity ==
        Sub(One, MathAbs(Sub(pattern1.capitalFrequency, pattern2.capitalFrequency)))
      punctuationSimilarity ==
        Sub(One, MathAbs(Sub(pattern1.punctuationFrequency,
                             pattern2.punctuationFrequency)))
  IN [speedSimilarity |-> PowHalf(speedRatio),
      speedWeight |-> getWeight(pattern1.averageSpeed, pattern2.averageSpeed,
                                baseWeights.speed),
      keyDistSimilarity |->
        KeyDistSimilarity(KeyDistSums(allKeys, pattern1, pattern2,
                                      [similarity |-> Zero, totalWeight |-> Zero])),
      keyDistWeight |-> getWeight(Num(VocabSize(pattern1)), Num(VocabSize(pattern2)),
                                  baseWeights.keyDistribution),
      rhythmSimilarity |->
        MathExp(Neg(MathAbs(Sub(pattern1.rhythmConsistency,
                                pattern2.rhythmConsistency)))),
      rhythmWeight |-> getWeight(pattern1.rhythmConsistency,
                                 pattern2.rhythmConsistency, baseWeights.rhythm),
      timingSimilarity |->
        Add(Mul(burstSpeedSimilarity, Fin((6 * SCALE) \div 10)),
            Mul(pauseSimilarity, Fin((4 * SCALE) \div 10))),
      timingWeight |-> getWeight(pattern1.pauseFrequency, pattern2.pauseFrequency,
                                 baseWeights.timing),
      styleSimilarity |->
        Add(Add(Mul(modifierSimilarity, Fin((4 * SCALE) \div 10)),
                Mul(capitalSimilarity, Fin((3 * SCALE) \div 10))),
            Mul(punctuationSimilarity, Fin((3 * SCALE) \div 10))),
      styleWeight |->
        getWeight(Add(pattern1.modifierFrequency, pattern1.capitalFrequency),
                  Add(pattern2.modifierFrequency, pattern2.capitalFrequency),
                  baseWeights.style)]

\* lines 241-248: the weighted mean of the sub-scores s
WeightedSimilarity(s) ==
  LET finalTotalWeight ==
        Add(Add(Add(Add(s.speedWeight, s.keyDistWeight), s.rhythmWeight),
                s.timingWeight), s.styleWeight)
      similarity ==
        Div(Add(Add(Add(Add(Mul(s.speedSimilarity, s.speedWeight),
                            Mul(s.keyDistSimilarity, s.keyDistWeight)),
                        Mul(s.rhythmSimilarity, s.rhythmWeight)),
                    Mul(s.timingSimilarity, s.timingWeight)),
                Mul(s.styleSimilarity, s.styleWeight)),
            finalTotalWeight)
  IN similarity

comparePatterns(pattern1, pattern2) ==
  Mul(WeightedSimilarity(SubScores(pattern1, pattern2)),
      confidenceMultiplier(pattern1, pattern2))

(***************************************************************************)
(* The people at the keyboard.  A typist types a fixed text in a fixed     *)
(* rhythm, both repeated as long as needed: key i of a session is          *)
(* TextOf(t)[i] and arrives GapOf(t)[i] milliseconds after key i - 1.      *)
(*   alice  a pangram, evenly                                              *)
(*   bob    the same pangram, four times slower                            *)
(*   carol  a shorter sentence (16 distinct characters), as fast as alice  *)
(*   dave   a short text with a capital, punctuation, Backspace and Enter  *)
(*   eraser one character and then Backspace eight times, in fits and      *)
(*          starts                                                         *)
(*   robot  the pangram, every key within the same millisecond (keys sent  *)
(*          by a script)                                                   *)
(*   fox    "the quick brown fox " at a uniform 100 ms                     *)
(*   trio   the three characters a, b, c, unevenly                         *)
(*   pauser the pangram, evenly, with a long pause before every twelfth    *)
(*          key                                                            *)
(***************************************************************************)
Pangram ==
  <<"t", "h", "e", " ", "q", "u", "i", "c", "k", " ", "b", "r", "o", "w", "n", " ",
    "f", "o", "x", " ", "j", "u", "m", "p", "s", " ", "o", "v", "e", "r", " ",
    "t", "h", "e", " ", "l", "a", "z", "y", " ", "d", "o", "g", " ">>
Sentence ==
  <<"t", "h", "e", " ", "q", "u", "i", "c", "k", " ", "b", "r", "o", "w", "n", " ",
    "f", "o", "x", " ">>
ShortText == <<"H", "i", ",", "Backspace", "!", " ", "a", "b", "Enter">>

Erasures ==
  <<"x", "Backspace", "Backspace", "Backspace", "Backspace", "Backspace",
    "Backspace", "Backspace", "Backspace">>

Typists ==
  {"alice", "bob", "carol", "dave", "robot", "eraser", "fox", "trio", "pauser",
   "undo"}
TextOf(t) ==
  CASE t = "carol" -> Sentence
    [] t = "fox" -> Sentence
    [] t = "trio" -> <<"a", "b", "c">>
    [] t = "dave" -> ShortText
    [] t = "eraser" -> Erasures
    [] t = "undo" -> <<"Backspace">>
    [] OTHER -> Pangram
RhythmOf(t) ==
  CASE t = "alice" -> <<5>>
    [] t = "bob" -> <<20>>
    [] t = "carol" -> <<5>>
    [] t = "dave" -> <<5, 9, 30>>
    [] t = "eraser" -> <<1, 200>>
    [] t = "fox" -> <<100>>
    [] t = "trio" -> <<5, 9>>
    [] t = "undo" -> <<5, 9>>
    [] t = "pauser" -> <<5, 5, 5, 5, 5, 5, 5, 5, 5, 5, 5, 500>>
    [] OTHER -> <<0>>

Cycle(s, i) == s[((i - 1) % Len(s)) + 1]
KeyOf(t, i) == Cycle(TextOf(t), i)
GapOf(t, i) == Cycle(RhythmOf(t), i)
ModifiersOf(key) == IF key \in CapitalKeys THEN ShiftOnly ELSE NoModifiers

(***************************************************************************)
(* The App component (App.tsx): constants, state and helpers.              *)
(***************************************************************************)
MINIMUM_SAMPLE_SIZE == 75
HIGH_CONFIDENCE_THRESHOLD == Fin((85 * SCALE) \div 100)
POSSIBLE_MATCH_THRESHOLD == Fin((75 * SCALE) \div 100)
NO_MATCH_THRESHOLD == Fin((6 * SCALE) \div 10)
ANALYSIS_DELAY == 1500
RETAINED_SAMPLES == 5

\* Bounds of the exploration: the keys the buffer may hold, the sessions
\* (samples typed and then saved, submitted or reset), profiles and deletions
\* of a run of the App, the requests of a run of the HTTP service, and the keys
\* a content script captures.
MaxBuffer == 76
MaxSessions == 6
MaxProfiles == 2
MaxDeletes == 1
MaxRequests == 1
MaxCaptured == 151

VARIABLES
  mode, keyEvents, startTime, lastKeyTime, lastKeystrokeTime, typingSpeed,
  userProfiles, predictionResult, predictionHistory, isGenerating,
  pending,      \* the predictUser call waiting for its timer: what its closure holds
  now,          \* Date.now()
  typist,       \* who types the current session
  plan,         \* the run: which program, who sits at the keyboard, how often
  calls,        \* profiles created, predictions started, resets and deletions
                \* made, requests served
  lastCall,     \* the last handler called and what came of it
  lastBest,     \* bestMatch of the last prediction that finished, and the scores
  arrivals,     \* per profile id, every sample the profile has taken in, in order
  profiles, response,                                 \* the HTTP service
  contentKeyEvents, contentStartTime, contentLastKeyTime,  \* the content script
  messages,     \* the TYPING_DATA messages the content script has sent, in order
  handled,      \* how many of them the background listener has posted
  captured,     \* every key event the content script has captured, in order
  notifications,  \* the notifications the background script has created
  sampleA, sampleB, patternA, patternB, similarity    \* the core, applied to inputs

appVars ==
  <<mode, keyEvents, startTime, lastKeyTime, lastKeystrokeTime, typingSpeed,
    userProfiles, predictionResult, predictionHistory, isGenerating, pending, now,
    typist, calls, lastBest, arrivals>>
serverVars == <<profiles, response>>
coreVars == <<sampleA, sampleB, patternA, patternB, similarity>>
extensionVars ==
  <<contentKeyEvents, contentStartTime, contentLastKeyTime, messages, handled,
    captured, notifications>>
vars == <<appVars, plan, lastCall, serverVars, coreVars, extensionVars>>

\* A time that is null (or 0) is falsy; Date.now() is never 0.
NullTime == 0
NoResult == [kind |-> "null", user |-> <<>>, confidence |-> Zero]
NoPending ==
  [active |-> FALSE, keyEvents |-> <<>>, userProfiles |-> <<>>, startedAt |-> NullTime]
NoBest == [found |-> FALSE, id |-> NullTime, similarity |-> Zero, scores |-> <<>>]
Call(op, events, gallery, invoked, outcome) ==
  [op |-> op, events |-> events, gallery |-> gallery, invoked |-> invoked,
   outcome |-> outcome]
NoCall == Call("", 0, 0, {}, "")

\* lines 113-132: the profile createNewProfile stores
NewProfile(first, last, events, pattern, time) ==
  [id |-> time, firstName |-> first, lastName |-> last,
   samples |-> <<events>>, pattern |-> pattern, createdAt |-> time,
   role |-> "user",
   stats |-> [averageSpeed |-> pattern.averageSpeed,
              accuracy |-> Sub(One, pattern.errorRate),
              totalSamples |-> 1,
              lastUpdated |-> time,
              consistencyScore |-> Sub(One, pattern.rhythmConsistency),
              successfulMatches |-> 0,
              totalAttempts |-> 0]]

\* lines 155-162: userProfiles.forEach over the first n profiles of the gallery
\* lines 159-161: the body of the loop, on the bestMatch so far
Better(bestMatch, profile, sim) ==
  IF ~bestMatch.found \/ Gt(sim, bestMatch.similarity)
  THEN [found |-> TRUE, profile |-> profile, similarity |-> sim]
  ELSE bestMatch

RECURSIVE BestMatch(_, _, _)
BestMatch(currentPattern, gallery, n) ==
  IF n = 0 THEN [found |-> FALSE, profile |-> <<>>, similarity |-> Zero]
  ELSE Better(BestMatch(currentPattern, gallery, n - 1), gallery[n],
              comparePatterns(currentPattern, gallery[n].pattern))

\* lines 167-169 and the if / else if / else of lines 198-314
isHighConfidence(confidence) == Ge(confidence, HIGH_CONFIDENCE_THRESHOLD)
isPossibleMatch(confidence) ==
  Ge(confidence, POSSIBLE_MATCH_THRESHOLD) /\ Lt(confidence, HIGH_CONFIDENCE_THRESHOLD)
isNoMatch(confidence) ==
  Ge(confidence, NO_MATCH_THRESHOLD) /\ Lt(confidence, POSSIBLE_MATCH_THRESHOLD)
Band_TwoBands(confidence) ==
  IF isHighConfidence(confidence) THEN "high" ELSE "nomatch"

Band(confidence) ==
  IF isHighConfidence(confidence) THEN "high"
  ELSE IF isPossibleMatch(confidence) THEN "possible"
  ELSE "nomatch"

\* (old * totalSamples + new) / (totalSamples + 1)
RollingMean(old, totalSamples, new) ==
  Div(Add(Mul(old, Num(totalSamples)), new), Num(totalSamples + 1))

RetainSamples_KeepAll(samples, events) == Append(samples, events)

RetainSamples_KeepFirst(samples, events) ==
  JsSlice(Append(samples, events), 0, RETAINED_SAMPLES)

\* [...profile.samples, keyEvents].slice(-5)
RetainSamples(samples, events) ==
  JsSlice(Append(samples, events), -RETAINED_SAMPLES, Len(samples) + 1)

UpdateMatched_TouchAlways(profile, events, currentPattern, high, time) ==
  [profile EXCEPT
     !.stats.totalAttempts = @ + 1,
     !.stats.successfulMatches = IF high THEN @ + 1 ELSE @,
     !.stats.lastUpdated = time,
     !.samples = IF high THEN RetainSamples(@, events) ELSE @,
     !.pattern = IF high THEN calculateTypingPattern(events) ELSE @]

UpdateMatched_KeepPattern(profile, events, currentPattern, high, time) ==
  [profile EXCEPT
     !.stats.totalAttempts = @ + 1,
     !.stats.successfulMatches = IF high THEN @ + 1 ELSE @,
     !.samples = IF high THEN RetainSamples(@, events) ELSE @]

\* lines 173-193: what the updater returns for the matched profile.  The
\* updater counts on profile.stats itself (lines 173-176) and returns copies;
\* it is run once for a call of setUserProfiles.
UpdateMatched(profile, events, currentPattern, high, time) ==
  LET stats == [profile.stats EXCEPT
                  !.totalAttempts = @ + 1,
                  !.successfulMatches = IF high THEN @ + 1 ELSE @]
  IN IF high
     THEN [profile EXCEPT
             !.samples = RetainSamples(profile.samples, events),
             !.pattern = calculateTypingPattern(events),
             !.stats =
               [stats EXCEPT
                  !.averageSpeed =
                    RollingMean(stats.averageSpeed, stats.totalSamples,
                                currentPattern.averageSpeed),
                  !.accuracy =
                    RollingMean(stats.accuracy, stats.totalSamples,
                                Sub(One, currentPattern.errorRate)),
                  !.totalSamples = stats.totalSamples + 1,
                  !.lastUpdated = time,
                  !.consistencyScore =
                    RollingMean(stats.consistencyScore, stats.totalSamples,
                                Sub(One, currentPattern.rhythmConsistency))]]
     ELSE [profile EXCEPT !.stats = stats]

\* lines 171-196: prev.map(profile => ...)
UpdateProfiles(prev, bestMatch, events, currentPattern, time) ==
  [i \in 1..Len(prev) |->
     IF prev[i].id = bestMatch.profile.id
     THEN UpdateMatched(prev[i], events, currentPattern,
                        isHighConfidence(bestMatch.similarity), time)
     ELSE prev[i]]

\* `${firstName} ${lastName}`
FullName(profile) == <<profile.firstName, profile.lastName>>

\* lines 157-161: the similarity computed for each profile of the gallery
Scores(currentPattern, gallery) ==
  [i \in 1..Len(gallery) |->
     [id |-> gallery[i].id,
      similarity |-> comparePatterns(currentPattern, gallery[i].pattern)]]

(***************************************************************************)
(* The App component: its handlers.                                        *)
(*                                                                         *)
(* A handler is called with whatever the buffer holds: the tests a handler *)
(* makes itself (the minimum sample size, the names) are left to the       *)
(* handler, so that its rejecting branch is part of the model.             *)
(*                                                                         *)
(* A run follows a plan: the people who sit at the keyboard, one per       *)
(* session, and how many profiles, resets and deletions the run has.  The  *)
(* person at the keyboard types a sample and then turns to the controls:   *)
(* the controls are used from one key short of the minimum sample on, and  *)
(* typing goes on past the minimum only while a prediction is analysed.    *)
(***************************************************************************)
Rota(t, n) == [i \in 1..n |-> t]
AppPlan(typists, created, resets, deleted) ==
  [program |-> "app", typists |-> typists, profiles |-> created, resets |-> resets,
   deletes |-> deleted]
ServerPlan ==
  [program |-> "server", typists |-> <<>>, profiles |-> 0, resets |-> 0, deletes |-> 0]
ExtensionPlan(t) ==
  [program |-> "extension", typists |-> <<t>>, profiles |-> 0, resets |-> 0,
   deletes |-> 0]
Plans ==
  {AppPlan(Rota("alice", MaxSessions), 1, 0, 0),
   AppPlan(<<"alice", "carol", "bob">>, MaxProfiles, 0, MaxDeletes),
   AppPlan(<<"bob", "carol", "alice">>, MaxProfiles, 0, 0),
   AppPlan(<<"robot", "alice", "alice">>, MaxProfiles, 0, 0),
   AppPlan(<<"alice", "alice", "alice">>, MaxProfiles, 1, MaxDeletes),
   ServerPlan, ExtensionPlan("alice"), ExtensionPlan("dave")}

Sessions == calls.created + calls.predicted + calls.resets
ControlsInUse ==
  /\ plan.program = "app"
  /\ Len(keyEvents) >= MINIMUM_SAMPLE_SIZE - 1
KeyboardInUse ==
  /\ plan.program = "app"
  /\ IF pending.active THEN Len(keyEvents) < MaxBuffer
     ELSE /\ Len(keyEvents) < MINIMUM_SAMPLE_SIZE
          /\ Sessions < Len(plan.typists)

resetState_KeepsLastKeyTime ==
  /\ keyEvents' = <<>>
  /\ startTime' = NullTime
  /\ lastKeyTime' = lastKeyTime
  /\ typingSpeed' = Zero
  /\ lastKeystrokeTime' = NullTime

\* lines 72-81
resetState ==
  /\ keyEvents' = <<>>
  /\ startTime' = NullTime
  /\ lastKeyTime' = NullTime
  /\ typingSpeed' = Zero
  /\ lastKeystrokeTime' = NullTime

\* lines 83-108, for key index i of typist t
handleKeyDown(t, i) ==
  LET time == now + (IF i = 1 THEN 1 ELSE GapOf(t, i))
      keyEvent ==
        KeyEvent(KeyOf(t, i), time,
                 IF lastKeyTime # NullTime THEN time - lastKeyTime ELSE 0,
                 ModifiersOf(KeyOf(t, i)))
      instantSpeed == Div(Num(60000), Num(time - lastKeystrokeTime))
  IN /\ now' = time
     /\ typist' = t
     /\ startTime' = IF startTime = NullTime THEN time ELSE startTime
     /\ typingSpeed' =
          IF lastKeystrokeTime # NullTime
          THEN Add(Mul(typingSpeed, Fin((7 * SCALE) \div 10)),
                   Mul(instantSpeed, Fin((3 * SCALE) \div 10)))
          ELSE typingSpeed
     /\ lastKeystrokeTime' = time
     /\ lastKeyTime' = time
     /\ keyEvents' = Append(keyEvents, keyEvent)
     /\ UNCHANGED <<mode, userProfiles, predictionResult, predictionHistory,
                    isGenerating, pending, calls, lastBest, arrivals>>

KeyDown ==
  /\ KeyboardInUse
  /\ \E t \in {IF keyEvents = <<>> THEN plan.typists[Sessions + 1] ELSE typist} :
       handleKeyDown(t, Len(keyEvents) + 1)
  /\ lastCall' = Call("handleKeyDown", 1, Len(userProfiles), {}, "")
  /\ UNCHANGED <<plan, serverVars, coreVars, extensionVars>>

\* the Reset button, line 692
Reset ==
  /\ ControlsInUse
  /\ ~pending.active
  /\ calls.resets < plan.resets
  /\ resetState
  /\ calls' = [calls EXCEPT !.resets = @ + 1]
  /\ lastCall' = Call("resetState", Len(keyEvents), Len(userProfiles), {}, "")
  /\ UNCHANGED <<mode, userProfiles, predictionResult, predictionHistory,
                 isGenerating, pending, now, typist, lastBest, arrivals>>
  /\ UNCHANGED <<plan, serverVars, coreVars, extensionVars>>

\* the mode buttons, lines 599 and 616-617
SetMode ==
  /\ ControlsInUse
  /\ ~pending.active
  /\ \E m \in {"create", "predict"} :
       /\ m # mode
       /\ m = "predict" => Len(userProfiles) # 0
       /\ mode' = m
  /\ lastCall' = Call("setMode", Len(keyEvents), Len(userProfiles), {}, "")
  /\ UNCHANGED <<keyEvents, startTime, lastKeyTime, lastKeystrokeTime, typingSpeed,
                 userProfiles, predictionResult, predictionHistory, isGenerating,
                 pending, now, typist, calls, lastBest, arrivals>>
  /\ UNCHANGED <<plan, serverVars, coreVars, extensionVars>>

\* lines 110-139, the Save Profile button of create mode; firstName and
\* lastName are what the two name inputs (lines 650, 657) hold at the click
createNewProfile ==
  /\ ControlsInUse
  /\ ~pending.active
  /\ mode = "create"
  /\ \E firstName \in {"", typist}, lastName \in {"", "Lee"} :
       IF firstName = "" \/ lastName = "" \/ Len(keyEvents) < MINIMUM_SAMPLE_SIZE
       THEN /\ lastCall' =
                 Call("createNewProfile", Len(keyEvents), Len(userProfiles), {}, "")
            /\ UNCHANGED appVars
       ELSE /\ calls.created < plan.profiles
            /\ userProfiles' =
                 Append(userProfiles,
                        NewProfile(firstName, lastName, keyEvents,
                                   calculateTypingPattern(keyEvents), now))
            /\ arrivals' = [id \in DOMAIN arrivals \cup {now} |->
                              IF id = now THEN <<keyEvents>> ELSE arrivals[id]]
            /\ resetState
            /\ mode' = "predict"
            /\ calls' = [calls EXCEPT !.created = @ + 1]
            /\ lastCall' =
                 Call("createNewProfile", Len(keyEvents), Len(userProfiles),
                      {"calculateTypingPattern"}, "created")
            /\ UNCHANGED <<predictionResult, predictionHistory, isGenerating, pending,
                           now, typist, lastBest>>
  /\ UNCHANGED <<plan, serverVars, coreVars, extensionVars>>

\* lines 328-330, from the dashboard's list of profiles
deleteProfile ==
  /\ ControlsInUse
  /\ calls.deleted < plan.deletes
  /\ \E i \in 1..Len(userProfiles) :
       userProfiles' =
         SelectSeq(userProfiles, LAMBDA p : p.id # userProfiles[i].id)
  /\ calls' = [calls EXCEPT !.deleted = @ + 1]
  /\ lastCall' = Call("deleteProfile", Len(keyEvents), Len(userProfiles), {}, "")
  /\ UNCHANGED <<mode, keyEvents, startTime, lastKeyTime, lastKeystrokeTime,
                 typingSpeed, predictionResult, predictionHistory, isGenerating,
                 pending, now, typist, lastBest, arrivals>>
  /\ UNCHANGED <<plan, serverVars, coreVars, extensionVars>>

\* what predictUser shows for a best match, lines 198-314
ResultShown(bestMatch) ==
  [kind |-> Band(bestMatch.similarity),
   user |-> IF Band(bestMatch.similarity) = "nomatch" THEN <<>>
            ELSE FullName(bestMatch.profile),
   confidence |-> bestMatch.similarity]
InsufficientResult == [kind |-> "insufficient", user |-> <<>>, confidence |-> Zero]

HistoryRecord_AlwaysCorrect(bestMatch, time) ==
  [predictedUser |-> FullName(bestMatch.profile),
   confidence |-> bestMatch.similarity,
   correct |-> TRUE,
   timestamp |-> time]

\* lines 316-321
HistoryRecord(bestMatch, time) ==
  [predictedUser |-> FullName(bestMatch.profile),
   confidence |-> bestMatch.similarity,
   correct |-> isHighConfidence(bestMatch.similarity),
   timestamp |-> time]

PredictButtonBusy_Never == FALSE

\* line 715: the Predict button is disabled while a prediction is analysed
PredictButtonBusy == isGenerating

\* lines 141-152: predictUser up to its await, the Predict button of predict
\* mode (disabled while isGenerating).  The closure of the call holds the
\* keyEvents and userProfiles of the render it was made in.
predictUser ==
  /\ ControlsInUse
  /\ mode = "predict"
  /\ ~PredictButtonBusy
  /\ IF Len(keyEvents) < MINIMUM_SAMPLE_SIZE
     THEN /\ predictionResult' = InsufficientResult
          /\ lastCall' =
               Call("predictUser", Len(keyEvents), Len(userProfiles), {},
                    "insufficient")
          /\ UNCHANGED <<isGenerating, pending, calls>>
     ELSE /\ isGenerating' = TRUE
          /\ pending' = [active |-> TRUE, keyEvents |-> keyEvents,
                         userProfiles |-> userProfiles, startedAt |-> now]
          /\ calls' = [calls EXCEPT !.predicted = @ + 1]
          /\ lastCall' =
               Call("predictUser", Len(keyEvents), Len(userProfiles), {}, "analysing")
          /\ UNCHANGED predictionResult
  /\ UNCHANGED <<mode, keyEvents, startTime, lastKeyTime, lastKeystrokeTime,
                 typingSpeed, userProfiles, predictionHistory, now, typist, lastBest,
                 arrivals>>
  /\ UNCHANGED <<plan, serverVars, coreVars, extensionVars>>

\* the samples a profile has taken in, after the updater of lines 171-196
Arrived(prev, bestMatch, events) ==
  [id \in DOMAIN arrivals |->
     IF /\ id = bestMatch.profile.id
        /\ isHighConfidence(bestMatch.similarity)
        /\ \E i \in 1..Len(prev) : prev[i].id = id
     THEN Append(arrivals[id], events)
     ELSE arrivals[id]]

\* lines 154-326: predictUser after its await, when the timer has fired
predictUserResume ==
  /\ pending.active
  /\ \E time \in {Max2(now, pending.startedAt + ANALYSIS_DELAY)} :
     \E currentPattern \in {calculateTypingPattern(pending.keyEvents)} :
     \E bestMatch \in {BestMatch(currentPattern, pending.userProfiles,
                                Len(pending.userProfiles))} :
        /\ now' = time
        /\ IF bestMatch.found
           THEN /\ userProfiles' =
                     UpdateProfiles(userProfiles, bestMatch, pending.keyEvents,
                                    currentPattern, time)
                /\ arrivals' = Arrived(userProfiles, bestMatch, pending.keyEvents)
                /\ predictionResult' = ResultShown(bestMatch)
                /\ predictionHistory' =
                     Append(predictionHistory, HistoryRecord(bestMatch, time))
                /\ lastBest' =
                     [found |-> TRUE, id |-> bestMatch.profile.id,
                      similarity |-> bestMatch.similarity,
                      scores |-> Scores(currentPattern, pending.userProfiles)]
                /\ lastCall' =
                     Call("predictUser", Len(pending.keyEvents),
                          Len(pending.userProfiles),
                          {"calculateTypingPattern", "comparePatterns"},
                          Band(bestMatch.similarity))
           ELSE /\ UNCHANGED <<userProfiles, predictionResult, predictionHistory,
                               arrivals>>
                /\ lastBest' = NoBest
                /\ lastCall' =
                     Call("predictUser", Len(pending.keyEvents),
                          Len(pending.userProfiles), {"calculateTypingPattern"}, "")
  /\ isGenerating' = FALSE
  /\ resetState
  /\ pending' = NoPending
  /\ UNCHANGED <<mode, typist, calls>>
  /\ UNCHANGED <<plan, serverVars, coreVars, extensionVars>>

AppInit ==
  /\ mode = "create"
  /\ keyEvents = <<>>
  /\ startTime = NullTime
  /\ lastKeyTime = NullTime
  /\ lastKeystrokeTime = NullTime
  /\ typingSpeed = Zero
  /\ userProfiles = <<>>
  /\ predictionResult = NoResult
  /\ predictionHistory = <<>>
  /\ isGenerating = FALSE
  /\ pending = NoPending
  /\ now = 0
  /\ typist = ""
  /\ calls = [created |-> 0, predicted |-> 0, resets |-> 0, deleted |-> 0,
              requests |-> 0]
  /\ lastBest = NoBest
  /\ arrivals = <<>>

(***************************************************************************)
(* The HTTP service (server.ts).  Its store is a Map from a user id to a   *)
(* pattern, kept here as the sequence of its entries in insertion order.   *)
(* A request body either holds an array of key events or does not.         *)
(***************************************************************************)
SERVER_MINIMUM == 75
SERVER_MATCH_THRESHOLD_BelowZero == Fin(0 - 1)
SERVER_MATCH_THRESHOLD == Fin((7 * SCALE) \div 10)
InsufficientData == "Invalid or insufficient typing data"
NullMatch == [isNull |-> TRUE, userId |-> ""]

\* a sample as a capture surface records it: n keys of typist t
RECURSIVE TimeOfKey(_, _)
TimeOfKey(t, i) == IF i = 1 THEN 1 ELSE TimeOfKey(t, i - 1) + GapOf(t, i)
SampleOf(t, n) ==
  [i \in 1..n |->
     KeyEvent(KeyOf(t, i), TimeOfKey(t, i), IF i = 1 THEN 0 ELSE GapOf(t, i),
              ModifiersOf(KeyOf(t, i)))]
RequestLengths == {0, SERVER_MINIMUM - 1, SERVER_MINIMUM}
RequestBodies ==
  {[isArray |-> FALSE, events |-> <<>>]}
    \cup {[isArray |-> TRUE, events |-> SampleOf(t, n)] :
            t \in {"alice", "bob", "carol", "robot"}, n \in RequestLengths}

\* lines 32-39: profiles.forEach over the first n entries of the store
\* lines 35-38: the body of the callback, on the bestMatch so far
ServerBetter(bestMatch, userId, sim) ==
  IF Gt(sim, bestMatch.similarity)
  THEN [userId |-> userId, similarity |-> sim]
  ELSE bestMatch

RECURSIVE ServerBestMatch(_, _, _)
ServerBestMatch(currentPattern, store, n) ==
  IF n = 0 THEN [userId |-> "", similarity |-> Zero]
  ELSE ServerBetter(ServerBestMatch(currentPattern, store, n - 1), store[n].userId,
                    comparePatterns(currentPattern, store[n].pattern))

\* lines 15-23
apiAnalyze ==
  /\ plan.program = "server"
  /\ calls.requests < MaxRequests
  /\ calls' = [calls EXCEPT !.requests = @ + 1]
  /\ \E body \in RequestBodies :
       IF ~body.isArray \/ Len(body.events) < SERVER_MINIMUM
       THEN /\ response' = [status |-> 400, error |-> InsufficientData]
            /\ lastCall' =
                 Call("/api/analyze", Len(body.events), Len(profiles), {},
                      "insufficient")
       ELSE /\ response' =
                 [status |-> 200, pattern |-> calculateTypingPattern(body.events)]
            /\ lastCall' =
                 Call("/api/analyze", Len(body.events), Len(profiles),
                      {"calculateTypingPattern"}, "pattern")
  /\ UNCHANGED <<mode, keyEvents, startTime, lastKeyTime, lastKeystrokeTime,
                 typingSpeed, userProfiles, predictionResult, predictionHistory,
                 isGenerating, pending, now, typist, lastBest, arrivals>>
  /\ UNCHANGED <<plan, profiles, coreVars, extensionVars>>

\* lines 25-45: the handler of /api/predict, for a request body
Predict(body) ==
  IF ~body.isArray \/ Len(body.events) < SERVER_MINIMUM
  THEN /\ response' = [status |-> 400, error |-> InsufficientData]
       /\ lastCall' =
            Call("/api/predict", Len(body.events), Len(profiles), {},
                 "insufficient")
  ELSE \E currentPattern \in {calculateTypingPattern(body.events)} :
       \E bestMatch \in {ServerBestMatch(currentPattern, profiles,
                                         Len(profiles))} :
         /\ response' =
              [status |-> 200,
               match |-> IF Gt(bestMatch.similarity, SERVER_MATCH_THRESHOLD)
                         THEN [isNull |-> FALSE, userId |-> bestMatch.userId]
                         ELSE NullMatch,
               confidence |-> bestMatch.similarity]
         /\ lastCall' =
              Call("/api/predict", Len(body.events), Len(profiles),
                   {"calculateTypingPattern"}
                     \cup (IF profiles = <<>> THEN {} ELSE {"comparePatterns"}),
                   "prediction")

\* a client posts a body to /api/predict
apiPredict ==
  /\ plan.program = "server"
  /\ calls.requests < MaxRequests
  /\ calls' = [calls EXCEPT !.requests = @ + 1]
  /\ \E body \in RequestBodies : Predict(body)
  /\ UNCHANGED <<mode, keyEvents, startTime, lastKeyTime, lastKeystrokeTime,
                 typingSpeed, userProfiles, predictionResult, predictionHistory,
                 isGenerating, pending, now, typist, lastBest, arrivals>>
  /\ UNCHANGED <<plan, profiles, coreVars, extensionVars>>

ServerIdle ==
  /\ profiles = <<>>
  /\ response = [status |-> 0]

(***************************************************************************)
(* The browser extension: the content script captures keys and sends them  *)
(* in TYPING_DATA messages; the listener of the background script posts    *)
(* each message to /api/predict and creates a notification on a match.     *)
(***************************************************************************)
CONTENT_FLUSH_SIZE_OneShort == SERVER_MINIMUM - 1

\* content script, line 29
CONTENT_FLUSH_SIZE == 75

\* content script, lines 8-36: key number i of typist t
contentHandleKeyDown ==
  /\ plan.program = "extension"
  /\ Len(captured) < MaxCaptured
  /\ \E t \in {plan.typists[1]} :
     \E i \in {Len(captured) + 1} :
     \E time \in {now + (IF i = 1 THEN 1 ELSE GapOf(t, i))} :
     \E keyEvent \in
          {KeyEvent(KeyOf(t, i), time,
                    IF contentLastKeyTime # NullTime THEN time - contentLastKeyTime
                    ELSE 0,
                    ModifiersOf(KeyOf(t, i)))} :
     \E pushed \in {Append(contentKeyEvents, keyEvent)} :
       /\ now' = time
       /\ contentStartTime' =
            IF contentStartTime = NullTime THEN time ELSE contentStartTime
       /\ contentLastKeyTime' = time
       /\ captured' = Append(captured, keyEvent)
       /\ IF Len(pushed) >= CONTENT_FLUSH_SIZE
          THEN /\ messages' = Append(messages, [type |-> "TYPING_DATA", data |-> pushed])
               /\ contentKeyEvents' = <<>>
          ELSE /\ contentKeyEvents' = pushed
               /\ UNCHANGED messages
  /\ lastCall' = Call("content.handleKeyDown", 1, Len(profiles), {}, "")
  /\ UNCHANGED <<mode, keyEvents, startTime, lastKeyTime, lastKeystrokeTime,
                 typingSpeed, userProfiles, predictionResult, predictionHistory,
                 isGenerating, pending, typist, calls, lastBest, arrivals>>
  /\ UNCHANGED <<plan, serverVars, coreVars, handled, notifications>>

\* background script, lines 6-31: the listener, for the next message sent
backgroundOnMessage ==
  /\ plan.program = "extension"
  /\ handled < Len(messages)
  /\ handled' = handled + 1
  /\ \E message \in {messages[handled + 1]} :
       IF message.type = "TYPING_DATA"
       THEN /\ Predict([isArray |-> TRUE, events |-> message.data])
            /\ notifications' =
                 IF response'.status = 200 /\ ~response'.match.isNull
                 THEN Append(notifications, response'.confidence)
                 ELSE notifications
       ELSE UNCHANGED <<response, lastCall, notifications>>
  /\ UNCHANGED <<appVars, plan, profiles, coreVars, contentKeyEvents,
                 contentStartTime, contentLastKeyTime, messages, captured>>

ExtensionIdle ==
  /\ contentKeyEvents = <<>>
  /\ contentStartTime = NullTime
  /\ contentLastKeyTime = NullTime
  /\ messages = <<>>
  /\ handled = 0
  /\ captured = <<>>
  /\ notifications = <<>>

(***************************************************************************)
(* The core applied to inputs: two samples, their patterns, the similarity *)
(* of the two patterns.                                                    *)
(***************************************************************************)
CoreLengths == {0, 1, 2, 10, 12, MINIMUM_SAMPLE_SIZE}
\* a sample with every timeSinceLast multiplied by k
Scaled(events, k) ==
  [i \in 1..Len(events) |-> [events[i] EXCEPT !.timeSinceLast = @ * k]]
CoreSamples ==
  {SampleOf(t, n) : t \in {"alice", "dave", "robot", "eraser", "trio", "pauser"},
                    n \in CoreLengths}
    \cup {SampleOf("fox", 100), SampleOf("undo", 12)}
    \cup {Scaled(SampleOf("dave", n), 4) : n \in {10, MINIMUM_SAMPLE_SIZE}}

Extract_ConsumesEvents ==
  /\ plan.program = "core"
  /\ lastCall = NoCall
  /\ patternA' = calculateTypingPattern(sampleA)
  /\ patternB' = calculateTypingPattern(sampleB)
  /\ sampleA' = <<>>
  /\ lastCall' =
       Call("calculateTypingPattern", Len(sampleA), 0, {"calculateTypingPattern"}, "")
  /\ UNCHANGED <<appVars, plan, serverVars, extensionVars, sampleB, similarity>>

Extract ==
  /\ plan.program = "core"
  /\ lastCall = NoCall
  /\ patternA' = calculateTypingPattern(sampleA)
  /\ patternB' = calculateTypingPattern(sampleB)
  /\ lastCall' =
       Call("calculateTypingPattern", Len(sampleA), 0, {"calculateTypingPattern"}, "")
  /\ UNCHANGED <<appVars, plan, serverVars, extensionVars, sampleA, sampleB, similarity>>

Compare ==
  /\ plan.program = "core"
  /\ lastCall.op = "calculateTypingPattern"
  /\ similarity' = comparePatterns(patternA, patternB)
  /\ lastCall' = Call("comparePatterns", Len(sampleA), 0, {"comparePatterns"}, "")
  /\ UNCHANGED <<appVars, plan, serverVars, extensionVars, sampleA, sampleB, patternA,
                 patternB>>

CoreIdle ==
  /\ sampleA = <<>>
  /\ sampleB = <<>>
  /\ patternA = DefaultPattern
  /\ patternB = DefaultPattern
  /\ similarity = Zero

(***************************************************************************)
(* Specifications.                                                         *)
(*   Spec        the App, the HTTP service and the browser extension as    *)
(*               the repository runs them                                  *)
(*   SeededSpec  the HTTP service over a store that holds profiles         *)
(*   PureSpec    the core applied to pairs of samples                      *)
(***************************************************************************)
Init ==
  /\ plan \in Plans
  /\ lastCall = NoCall
  /\ AppInit
  /\ ServerIdle
  /\ CoreIdle
  /\ ExtensionIdle

Next ==
  \/ KeyDown
  \/ Reset
  \/ SetMode
  \/ createNewProfile
  \/ deleteProfile
  \/ predictUser
  \/ predictUserResume
  \/ apiAnalyze
  \/ apiPredict
  \/ contentHandleKeyDown
  \/ backgroundOnMessage

Spec == Init /\ [][Next]_vars

Enrolled == {"alice", "bob", "carol", "robot"}
StoreEntry(t) ==
  [userId |-> t, pattern |-> calculateTypingPattern(SampleOf(t, SERVER_MINIMUM))]
SeededStores ==
  {<<>>} \cup {<<StoreEntry(t)>> : t \in Enrolled}
    \cup {<<StoreEntry(t), StoreEntry(u)>> : t \in Enrolled, u \in Enrolled}

SeededInit ==
  /\ plan = ServerPlan
  /\ lastCall = NoCall
  /\ AppInit
  /\ profiles \in SeededStores
  /\ response = [status |-> 0]
  /\ CoreIdle
  /\ ExtensionIdle

SeededNext ==
  \/ apiAnalyze
  \/ apiPredict

SeededSpec == SeededInit /\ [][SeededNext]_vars

PureInit ==
  /\ plan = [ServerPlan EXCEPT !.program = "core"]
  /\ lastCall = NoCall
  /\ AppInit
  /\ ServerIdle
  /\ ExtensionIdle
  /\ sampleA \in CoreSamples
  /\ sampleB \in CoreSamples
  /\ patternA = DefaultPattern
  /\ patternB = DefaultPattern
  /\ similarity = Zero

PureNext ==
  \/ Extract
  \/ Compare

PureSpec == PureInit /\ [][PureNext]_vars

(***************************************************************************)
(* Properties of the core.                                                 *)
(***************************************************************************)
IsAllZero(pattern) ==
  /\ \A f \in {"averageSpeed", "backspaceFrequency", "averageWordLength",
               "rhythmConsistency", "modifierFrequency", "capitalFrequency",
               "punctuationFrequency", "burstSpeed", "pauseFrequency",
               "speedVariability", "keyPressForce", "errorRate"} :
       pattern[f] = Fin(0)
  /\ DOMAIN pattern.keyPressDistribution = {}
  /\ DOMAIN pattern.modifierUsage = {}
  /\ DOMAIN pattern.specialKeyFrequency = {}
  /\ pattern.timingPatterns = <<>>
Extracted == lastCall.op \in {"calculateTypingPattern", "comparePatterns"}

\* C1: for a sample of 0 or 1 key events calculateTypingPattern returns the
\* all-zero default pattern: every scalar field 0, the three maps empty, no
\* timing patterns.
C1_ShortSampleGivesDefault ==
  Extracted =>
    /\ Len(sampleA) < 2 => IsAllZero(patternA)
    /\ Len(sampleB) < 2 => IsAllZero(patternB)
C1_Witness == Extracted /\ Len(sampleA) = 1 /\ Len(sampleB) = 0

\* C3: for every two patterns that calculateTypingPattern produced,
\* comparePatterns returns a number s with 0 <= s <= 1, never negative and
\* never NaN.
C3_SimilarityInUnitInterval ==
  lastCall.op = "comparePatterns" =>
    /\ IsFin(similarity)
    /\ Ge(similarity, Zero)
    /\ Le(similarity, One)

(***************************************************************************)
(* Properties of the boundary: the App and the HTTP service.               *)
(***************************************************************************)
Requests == {"predictUser", "createNewProfile", "/api/predict", "/api/analyze"}
\* a request has just been handled
Handled == lastCall' # lastCall /\ lastCall'.op \in Requests
\* predictUser has got past its await and found a best match
PredictionShown ==
  /\ lastCall.op = "predictUser"
  /\ lastCall.invoked # {}
  /\ lastBest.found
\* the step in which predictUser gets past its await
PredictionFinishes == pending.active /\ ~pending'.active
LastOf(s, n) == SubSeq(s, Max2(1, Len(s) - n + 1), Len(s))

\* C2: a prediction request (predictUser, /api/predict) and an enrolment or
\* analysis request (createNewProfile, /api/analyze) that carries fewer than
\* 75 key events is rejected with an explicit insufficient-sample outcome,
\* invokes neither calculateTypingPattern nor comparePatterns, and leaves the
\* profile stores and the prediction history as they were.
C2_ShortRequestRejected ==
  [][(Handled /\ lastCall'.events < 75) =>
       /\ lastCall'.outcome = "insufficient"
       /\ lastCall'.invoked = {}
       /\ userProfiles' = userProfiles
       /\ profiles' = profiles
       /\ predictionHistory' = predictionHistory]_vars

\* C4: the App puts the best similarity s into exactly one band: high for
\* s >= 0.85, possible for 0.75 <= s < 0.85, no match for every s < 0.75.
C4_BandsExclusiveExhaustive ==
  PredictionShown =>
    LET s == lastBest.similarity
        shown == predictionResult.kind
    IN /\ shown \in {"high", "possible", "nomatch"}
       /\ Ge(s, Fin(850)) => shown = "high"
       /\ (Ge(s, Fin(750)) /\ Lt(s, Fin(850))) => shown = "possible"
       /\ Lt(s, Fin(750)) => shown = "nomatch"
C4_Witness ==
  /\ PredictionShown
  /\ predictionResult.kind = "possible"
  /\ \E i \in 1..Len(predictionHistory) : Lt(predictionHistory[i].confidence, Fin(750))

C6_OnlyHighConfidenceChangesProfiles ==
  [][PredictionFinishes =>
       \A i \in 1..Len(userProfiles) :
         userProfiles'[i] # userProfiles[i] =>
           /\ lastBest'.found
           /\ Ge(lastBest'.similarity, Fin(850))
           /\ userProfiles[i].id = lastBest'.id]_vars

\* C6 amended: every prediction over a non-empty gallery adds one to
\* stats.totalAttempts of its best-match profile; a prediction changes
\* anything else of a stored profile only if it is a high-confidence match
\* for that profile.
C6_OnlyAttemptsCountedBelowHighConfidence ==
  [][PredictionFinishes =>
       \A i \in 1..Len(userProfiles) :
         IF lastBest'.found /\ userProfiles[i].id = lastBest'.id
         THEN /\ userProfiles'[i].stats.totalAttempts =
                   userProfiles[i].stats.totalAttempts + 1
              /\ \/ Ge(lastBest'.similarity, Fin(850))
                 \/ userProfiles'[i] =
                      [userProfiles[i] EXCEPT !.stats.totalAttempts = @ + 1]
         ELSE userProfiles'[i] = userProfiles[i]]_vars
C6_Witness ==
  /\ PredictionShown
  /\ Lt(lastBest.similarity, Fin(850))
  /\ \E i \in 1..Len(userProfiles) :
       /\ userProfiles[i].id = lastBest.id
       /\ userProfiles[i].stats.totalAttempts >= 1
       /\ userProfiles[i].stats.successfulMatches = 0

\* C7: every stored profile retains between 1 and 5 samples, and they are
\* the most recent (at most 5) samples the profile took in, in arrival order.
C7_RetainsMostRecentFive ==
  \A i \in 1..Len(userProfiles) :
    LET profile == userProfiles[i]
    IN /\ Len(profile.samples) \in 1..5
       /\ profile.samples = LastOf(arrivals[profile.id], 5)
C7_Witness ==
  \E i \in 1..Len(userProfiles) :
    /\ Len(arrivals[userProfiles[i].id]) > 5
    /\ Len(userProfiles[i].samples) = 5

\* C8: the pattern of a stored profile is calculateTypingPattern of the last
\* of its retained samples: it is so for every profile a step stores or changes.
C8_PatternOfLastSample ==
  [][\A i \in 1..Len(userProfiles') :
       \/ \E j \in 1..Len(userProfiles) : userProfiles[j] = userProfiles'[i]
       \/ userProfiles'[i].pattern =
            calculateTypingPattern(
              userProfiles'[i].samples[Len(userProfiles'[i].samples)])]_vars
C8_Witness ==
  /\ PredictionShown
  /\ \E i \in 1..Len(userProfiles) :
       /\ userProfiles[i].id = lastBest.id
       /\ Len(userProfiles[i].samples) = 2
       /\ userProfiles[i].firstName = "alice"
       /\ typist = "carol"

\* C9: over a non-empty gallery the best match is a profile whose similarity
\* to the current pattern is at least that of every other profile, the
\* earliest such profile, and the confidence reported is its similarity.
C9_BestMatchIsMaximum ==
  PredictionShown =>
    \E b \in 1..Len(lastBest.scores) :
      /\ lastBest.scores[b].id = lastBest.id
      /\ lastBest.scores[b].similarity = lastBest.similarity
      /\ predictionResult.confidence = lastBest.similarity
      /\ \A j \in 1..Len(lastBest.scores) :
           /\ j # b => Ge(lastBest.similarity, lastBest.scores[j].similarity)
           /\ j < b => lastBest.scores[j].similarity # lastBest.similarity

\* C10: a prediction with at least 75 events against no profiles is shown as
\* no match: predictUser sets a no-match result, /api/predict answers with
\* match = null.
C10_EmptyGalleryIsNoMatch ==
  /\ (/\ lastCall.op = "predictUser"
      /\ lastCall.invoked # {}
      /\ lastCall.gallery = 0) => predictionResult.kind = "nomatch"
  /\ (/\ lastCall.op = "/api/predict"
      /\ lastCall.gallery = 0
      /\ response.status = 200) => response.match.isNull

(***************************************************************************)
(* Properties of the extracted pattern.                                    *)
(***************************************************************************)
ScalarFields ==
  {"averageSpeed", "backspaceFrequency", "averageWordLength", "rhythmConsistency",
   "modifierFrequency", "capitalFrequency", "punctuationFrequency", "burstSpeed",
   "pauseFrequency", "speedVariability", "keyPressForce", "errorRate"}
IsDefinedFinite(pattern) ==
  /\ \A f \in ScalarFields : IsFin(pattern[f])
  /\ \A key \in DOMAIN pattern.keyPressDistribution :
       IsFin(pattern.keyPressDistribution[key])
AllIntervalsZero(events) ==
  Len(events) >= 2 /\ \A i \in 2..Len(events) : events[i].timeSinceLast = 0

\* C11: for every event sequence every numeric field of the pattern that
\* calculateTypingPattern returns is a finite number, and a metric whose
\* denominator is 0 (the mean of intervals that are all 0) has the value 0.
C11_EveryFieldFinite ==
  Extracted =>
    /\ IsDefinedFinite(patternA)
    /\ IsDefinedFinite(patternB)
    /\ AllIntervalsZero(sampleA) =>
         patternA.rhythmConsistency = Zero /\ patternA.speedVariability = Zero

\* the distinct single-character keys of a sequence, and how often a key occurs
SingleKeys(events) ==
  {events[i].key : i \in {j \in 1..Len(events) : Len(events[j].key) = 1}}
Occurrences(events, key) == Cardinality({i \in 1..Len(events) : events[i].key = key})
RECURSIVE SumOfValues(_, _)
SumOfValues(map, keys) ==
  IF keys = {} THEN 0
  ELSE LET key == CHOOSE x \in keys : TRUE
       IN map[key].v + SumOfValues(map, keys \ {key})

\* the distribution has an entry for exactly the single-character keys of the
\* events; each value is (count + 0.1) / (total + 0.1 * distinct), rounded to
\* 1/SCALE; the values sum to 1 up to that rounding
IsSmoothedDistribution(events, pattern) ==
  LET keys == SingleKeys(events)
      distinct == Cardinality(keys)
      total == Cardinality({i \in 1..Len(events) : Len(events[i].key) = 1})
      denominator == 10 * total + distinct
      distribution == pattern.keyPressDistribution
  IN /\ DOMAIN distribution = keys
     /\ \A key \in keys :
          /\ IsFin(distribution[key])
          /\ 2 * AbsInt(distribution[key].v * denominator
                          - SCALE * (10 * Occurrences(events, key) + 1))
               <= denominator
     /\ 2 * AbsInt(SumOfValues(distribution, keys) - SCALE) <= distinct

\* C12 as stated: for every event sequence with at least one single-character
\* key, keyPressDistribution has an entry for exactly the distinct
\* single-character keys and its values, (count + 0.1) / (total + 0.1 *
\* distinct), sum to 1.
C12_DistributionSumsToOne ==
  (Extracted /\ SingleKeys(sampleA) # {}) => IsSmoothedDistribution(sampleA, patternA)

\* C12 amended: the same for every event sequence of at least 2 events; a
\* sequence of fewer than 2 events has the empty distribution of the default
\* pattern.
C12_DistributionSumsToOneFromTwoEvents ==
  /\ (Extracted /\ Len(sampleA) >= 2 /\ SingleKeys(sampleA) # {})
       => IsSmoothedDistribution(sampleA, patternA)
  /\ (Extracted /\ Len(sampleA) < 2) => DOMAIN patternA.keyPressDistribution = {}
C12_Witness ==
  /\ Extracted
  /\ Len(sampleA) = MINIMUM_SAMPLE_SIZE
  /\ Cardinality(SingleKeys(sampleA)) = 7
  /\ \E i \in 1..Len(sampleA) : sampleA[i].key = "Backspace"
  /\ Len(sampleB) = 1 /\ SingleKeys(sampleB) # {}

(***************************************************************************)
(* The scenario of 100 key events typing "the quick brown fox " at a       *)
(* uniform 100 ms, compared against itself.                                *)
(***************************************************************************)
FoxScenario ==
  /\ lastCall.op = "comparePatterns"
  /\ Len(sampleA) = 100
  /\ sampleA = SampleOf("fox", 100)
  /\ sampleB = sampleA
FoxPattern ==
  /\ patternA.averageSpeed = Num(100)
  /\ patternA.errorRate = Zero
  /\ patternA.rhythmConsistency = Zero
  /\ patternB = patternA

\* C13 as stated: in the scenario averageSpeed is 100, errorRate 0,
\* rhythmConsistency 0, and the similarity of the pattern to itself is at
\* least 0.9.
C13_FoxSelfSimilarityAtLeastNineTenths ==
  FoxScenario => FoxPattern /\ Ge(similarity, Fin((9 * SCALE) \div 10))

\* C13 amended: in the scenario averageSpeed is 100, errorRate 0,
\* rhythmConsistency 0, and the similarity of the pattern to itself is
\* 16/20 = 0.8 (sixteen distinct characters), up to rounding.
C13_FoxSelfSimilarityIsFourFifths ==
  FoxScenario =>
    /\ FoxPattern
    /\ Cardinality(SingleKeys(sampleA)) = 16
    /\ Ge(similarity, Fin((795 * SCALE) \div 1000))
    /\ Le(similarity, Fin((805 * SCALE) \div 1000))
C13_Witness == FoxScenario /\ IsFin(similarity)

(***************************************************************************)
(* Properties of the confidence adjustment.                                *)
(***************************************************************************)
\* min(1, sqrt(vA / 20) * sqrt(vB / 20))
VocabularyCap(pattern1, pattern2) ==
  MathMin(One, Mul(MathSqrt(Div(Num(VocabSize(pattern1)), Num(20))),
                   MathSqrt(Div(Num(VocabSize(pattern2)), Num(20)))))

\* C14: the confidence multiplier comparePatterns applies is at most
\* min(1, sqrt(vA/20) * sqrt(vB/20)) for profiles of vA and vB distinct
\* characters, and for two profiles of 3 distinct characters each the
\* similarity returned is at most 3/20 = 0.15.
C14_VocabularyCapsSimilarity ==
  lastCall.op = "comparePatterns" =>
    /\ Le(confidenceMultiplier(patternA, patternB), VocabularyCap(patternA, patternB))
    /\ (VocabSize(patternA) = 3 /\ VocabSize(patternB) = 3)
         => Le(similarity, Fin((15 * SCALE) \div 100))

(***************************************************************************)
(* Purity of the core.                                                     *)
(***************************************************************************)
CoreCalled == lastCall' # lastCall /\ lastCall'.op \in {"calculateTypingPattern", "comparePatterns"}

MeasuredFromFirstKey(events) ==
  \A i \in 1..Len(events) :
    events[i].timeSinceLast =
      IF i = 1 THEN 0 ELSE events[i].timestamp - events[i - 1].timestamp

\* C16: every batch of key events a capture surface hands to the core (the
\* App's buffer at create and predict time, each TYPING_DATA message of the
\* content script) starts with timeSinceLast = 0, and every later event of
\* the batch has timeSinceLast = its timestamp minus the timestamp of the
\* event before it.
C16_BatchesMeasuredFromFirstKey ==
  /\ pending.active => MeasuredFromFirstKey(pending.keyEvents)
  /\ \A i \in 1..Len(userProfiles) :
       \A j \in 1..Len(userProfiles[i].samples) :
         MeasuredFromFirstKey(userProfiles[i].samples[j])
  /\ \A m \in 1..Len(messages) : MeasuredFromFirstKey(messages[m].data)

(***************************************************************************)
(* Properties of the single metrics.                                       *)
(***************************************************************************)
HasBackspace(events) == \E i \in 1..Len(events) : events[i].key = "Backspace"

\* C17: for every event sequence without a Backspace key and with at least
\* one single-character key, errorRate is exactly 0, whatever the intervals
\* are.
C17_NoBackspaceNoErrorRate ==
  Extracted =>
    /\ (~HasBackspace(sampleA) /\ SingleKeys(sampleA) # {}) => patternA.errorRate = Zero
    /\ (~HasBackspace(sampleB) /\ SingleKeys(sampleB) # {}) => patternB.errorRate = Zero

\* the intervals of a sequence (timeSinceLast of every event but the first),
\* and what is left of them, sorted, when floor(10%) of them are dropped from
\* each end
IntervalsOf(events) == [i \in 1..(Len(events) - 1) |-> events[i + 1].timeSinceLast]
KeptIntervals(events) ==
  LET sorted == SortAsc(IntervalsOf(events))
      dropped == Len(sorted) \div 10
  IN SubSeq(sorted, dropped + 1, Len(sorted) - dropped)
IsMeanOf(value, s) ==
  /\ IsFin(value)
  /\ 2 * AbsInt(value.v * Len(s) - SCALE * SumSeq(s)) <= Len(s)

\* C18: for every event sequence of length >= 2, averageSpeed is the mean of
\* the sorted intervals without floor(10% of their count) values at each end;
\* with fewer than 10 intervals nothing is dropped and averageSpeed is the
\* mean of all intervals.
C18_AverageSpeedIsTrimmedMean ==
  (Extracted /\ Len(sampleA) >= 2) =>
    /\ IsMeanOf(patternA.averageSpeed, KeptIntervals(sampleA))
    /\ Len(sampleA) <= 10 => IsMeanOf(patternA.averageSpeed, IntervalsOf(sampleA))

(***************************************************************************)
(* The pass over the events: words and backspaces.                         *)
(***************************************************************************)
\* the pass as described: a single character other than the space lengthens
\* the word in progress, a space or an Enter records it if it is not empty,
\* a Backspace takes its last character and is counted
WordStep(w, key) ==
  IF key = " " \/ key = "Enter"
  THEN [w EXCEPT !.lengths = IF w.word > 0 THEN Append(@, w.word) ELSE @,
                 !.word = 0]
  ELSE IF key = "Backspace"
  THEN [w EXCEPT !.word = IF @ > 0 THEN @ - 1 ELSE 0, !.backspaces = @ + 1]
  ELSE IF Len(key) = 1 THEN [w EXCEPT !.word = @ + 1]
  ELSE w
RECURSIVE WordPass(_, _)
WordPass(events, n) ==
  IF n = 0 THEN [word |-> 0, lengths |-> <<>>, backspaces |-> 0]
  ELSE WordStep(WordPass(events, n - 1), events[n].key)
Finished(lengths, word) == IF word > 0 THEN Append(lengths, word) ELSE lengths
WordsAsDescribed(w, c) ==
  /\ Finished(c.wordLengths, Len(c.wordBuffer)) = Finished(w.lengths, w.word)
  /\ c.backspaceCount = w.backspaces
  /\ \A i \in 1..Len(c.wordLengths) : c.wordLengths[i] > 0

\* C19: in the pass over the events the word in progress grows by one for
\* each single-character key other than the space, is recorded (if not empty)
\* on a space and on an Enter, and loses its last character on a Backspace,
\* which is counted; two words separated only by Enter give two word lengths,
\* and no recorded word length is 0.
C19_WordsSplitOnSpaceAndEnter ==
  (Extracted /\ Len(sampleA) >= 2) =>
    WordsAsDescribed(WordPass(sampleA, Len(sampleA)),
                     CountEvents(sampleA, 1, Len(sampleA), InitialCounters))

(***************************************************************************)
(* The content script's batches.                                           *)
(***************************************************************************)
\* the events of the first n messages, one after the other
RECURSIVE SentEvents(_, _)
SentEvents(sent, n) ==
  IF n = 0 THEN <<>> ELSE SentEvents(sent, n - 1) \o sent[n].data

\* C20: the content script flushes every 75 events: every TYPING_DATA message
\* carries exactly 75 consecutive key events in capture order, every captured
\* event is in exactly one message or still in the buffer, the buffer holds
\* fewer than 75 events after every key handler (none right after a flush),
\* and /api/predict answers no message with 400.
C20_FlushEverySeventyFive ==
  /\ \A m \in 1..Len(messages) :
       messages[m].type = "TYPING_DATA" /\ Len(messages[m].data) = SERVER_MINIMUM
  /\ SentEvents(messages, Len(messages)) \o contentKeyEvents = captured
  /\ Len(contentKeyEvents) < SERVER_MINIMUM
  /\ Len(contentKeyEvents) = Len(captured) - SERVER_MINIMUM * Len(messages)
  /\ handled > 0 =>
       /\ response.status = 200
       /\ lastCall.op = "/api/predict" => lastCall.outcome = "prediction"
C20_Witness ==
  /\ Len(messages) = 2
  /\ handled = 2
  /\ Len(captured) = 2 * SERVER_MINIMUM + 1
  /\ Len(contentKeyEvents) = 1
  /\ response.status = 200

(***************************************************************************)
(* Rhythm consistency.                                                     *)
(***************************************************************************)
\* the population standard deviation of the intervals (about their own
\* mean), divided by averageSpeed; 0 when averageSpeed is 0
RawMean(intervals) == Div(Num(SumSeq(intervals)), Num(Len(intervals)))
PopulationDeviation(intervals) ==
  MathSqrt(Div(SquaredDeviations(intervals, RawMean(intervals)),
               Num(Len(intervals))))
DeviationOverSpeed(intervals, averageSpeed) ==
  IF averageSpeed = Zero THEN Zero
  ELSE Div(PopulationDeviation(intervals), averageSpeed)
\* equal up to the rounding of the square root and the two divisions
Near(a, b) == IsFin(a) /\ IsFin(b) /\ AbsInt(a.v - b.v) <= 3

\* C21: rhythmConsistency is the population standard deviation of the raw
\* intervals (the root of the mean squared deviation from their own mean)
\* divided by averageSpeed, and 0 when averageSpeed is 0.
C21_RhythmIsDeviationOverSpeed ==
  (Extracted /\ Len(sampleA) >= 2) =>
    Near(patternA.rhythmConsistency,
         DeviationOverSpeed(IntervalsOf(sampleA), patternA.averageSpeed))

(***************************************************************************)
(* Rescaling the intervals of a sample.                                    *)
(***************************************************************************)
\* sampleB is sampleA with every timeSinceLast multiplied by 4, and both have
\* been extracted and compared
RescaledByFour ==
  /\ lastCall.op = "comparePatterns"
  /\ Len(sampleA) >= 2
  /\ sampleB = Scaled(sampleA, 4)
SameShape(p, q) ==
  /\ Near(p.rhythmConsistency, q.rhythmConsistency)
  /\ Near(p.speedVariability, q.speedVariability)
  /\ Near(p.pauseFrequency, q.pauseFrequency)
  /\ Near(p.errorRate, q.errorRate)
  /\ p.keyPressDistribution = q.keyPressDistribution
  /\ p.modifierFrequency = q.modifierFrequency
  /\ p.capitalFrequency = q.capitalFrequency
  /\ p.punctuationFrequency = q.punctuationFrequency
SameRhythmAndStyleScores(s, t) ==
  /\ Near(s.rhythmSimilarity, t.rhythmSimilarity)
  /\ Near(s.rhythmWeight, t.rhythmWeight)
  /\ Near(s.styleSimilarity, t.styleSimilarity)
  /\ Near(s.styleWeight, t.styleWeight)

\* C22: multiplying every timeSinceLast of a sequence by k > 0 (here k = 4)
\* multiplies averageSpeed and burstSpeed by k and leaves rhythmConsistency,
\* speedVariability, pauseFrequency, keyPressDistribution, errorRate and the
\* modifier, capital and punctuation frequencies as they were; the rhythm and
\* style sub-scores and weights against a third profile are unchanged, and
\* the speed sub-score against the unscaled profile is (1/k)^0.5 = 0.5.
C22_RescalingChangesOnlySpeed ==
  RescaledByFour =>
    /\ Near(patternB.averageSpeed, Mul(Num(4), patternA.averageSpeed))
    /\ Near(patternB.burstSpeed, Mul(Num(4), patternA.burstSpeed))
    /\ SameShape(patternA, patternB)
    /\ SameRhythmAndStyleScores(SubScores(patternA, patternA),
                                SubScores(patternB, patternA))
    /\ Near(SubScores(patternA, patternB).speedSimilarity, Fin(SCALE \div 2))

(***************************************************************************)
(* The prediction history.                                                 *)
(***************************************************************************)
\* C23: every prediction that passed the 75-event test and scored a
\* non-empty gallery appends exactly one record to the prediction history,
\* whatever the band of its score; the record's correct flag is true exactly
\* when the score is >= 0.85; records already in the history are never
\* changed or removed.
C23_OneHistoryRecordPerPrediction ==
  [][/\ Len(predictionHistory') >= Len(predictionHistory)
     /\ SubSeq(predictionHistory', 1, Len(predictionHistory)) = predictionHistory
     /\ (PredictionFinishes /\ pending.userProfiles # <<>>) =>
          /\ Len(predictionHistory') = Len(predictionHistory) + 1
          /\ \E record \in {predictionHistory'[Len(predictionHistory')]} :
               /\ record.confidence = lastBest'.similarity
               /\ record.correct = Ge(record.confidence, HIGH_CONFIDENCE_THRESHOLD)
     /\ ~PredictionFinishes => predictionHistory' = predictionHistory]_vars
C23_Witness ==
  /\ Len(predictionHistory) = 2
  /\ Lt(predictionHistory[1].confidence, POSSIBLE_MATCH_THRESHOLD)
  /\ ~predictionHistory[1].correct
  /\ isPossibleMatch(predictionHistory[2].confidence)
  /\ ~predictionHistory[2].correct

(***************************************************************************)
(* The statistics of a stored profile.                                     *)
(***************************************************************************)
\* C24: every stored profile has successfulMatches <= totalAttempts and
\* totalSamples = 1 + successfulMatches, and retains min(5, totalSamples)
\* samples.
C24_ProfileCountsAgree ==
  \A i \in 1..Len(userProfiles) :
    /\ userProfiles[i].stats.successfulMatches <= userProfiles[i].stats.totalAttempts
    /\ userProfiles[i].stats.totalSamples = 1 + userProfiles[i].stats.successfulMatches
    /\ Len(userProfiles[i].samples) =
         Min2(RETAINED_SAMPLES, userProfiles[i].stats.totalSamples)
C24_Witness ==
  \E i \in 1..Len(userProfiles) :
    /\ userProfiles[i].stats.totalSamples = RETAINED_SAMPLES + 1
    /\ userProfiles[i].stats.totalAttempts = RETAINED_SAMPLES
    /\ Len(userProfiles[i].samples) = RETAINED_SAMPLES

(***************************************************************************)
(* A prediction and the keys typed while it is analysed.                   *)
(***************************************************************************)
PredictionStarts == ~pending.active /\ pending'.active
StoredBy(id) == {i \in 1..Len(userProfiles') : userProfiles'[i].id = id}

\* C25: the pattern a prediction scores, and the sample a high-confidence
\* match stores, come from the buffer as it was when predictUser was called:
\* keys captured during the analysis delay are in neither, and are discarded
\* when the prediction completes (the buffer is empty and the last-key time
\* null after every completed prediction).
C25_PredictionUsesBufferAtCall ==
  [][/\ PredictionStarts =>
          pending'.keyEvents = keyEvents /\ keyEvents' = keyEvents
     /\ (pending.active /\ pending'.active) => pending'.keyEvents = pending.keyEvents
     /\ PredictionFinishes =>
          /\ keyEvents' = <<>>
          /\ lastKeyTime' = NullTime
          /\ lastBest'.found =>
               /\ \E i \in 1..Len(lastBest'.scores) :
                    /\ lastBest'.scores[i].id = lastBest'.id
                    /\ lastBest'.scores[i].similarity = lastBest'.similarity
               /\ lastBest'.scores =
                    Scores(calculateTypingPattern(pending.keyEvents),
                           pending.userProfiles)
               /\ \A i \in StoredBy(lastBest'.id) :
                    IF isHighConfidence(lastBest'.similarity)
                    THEN LastOf(userProfiles'[i].samples, 1) = <<pending.keyEvents>>
                    ELSE userProfiles'[i].samples = userProfiles[i].samples]_vars
C25_Witness ==
  /\ pending.active
  /\ Len(pending.keyEvents) = MINIMUM_SAMPLE_SIZE
  /\ Len(keyEvents) = MINIMUM_SAMPLE_SIZE + 1
  /\ SubSeq(keyEvents, 1, MINIMUM_SAMPLE_SIZE) = pending.keyEvents
  /\ pending.userProfiles # <<>>

(***************************************************************************)
(* The profile a prediction names, and the store when it is recorded.      *)
(***************************************************************************)
InStore(store, id, name) ==
  \E i \in 1..Len(store) : store[i].id = id /\ FullName(store[i]) = name

\* C26: every prediction result shown and every prediction-history record
\* names a profile that is in the profile store when the result is recorded,
\* also when deleteProfile runs while predictUser waits for its timer.
C26_RecordedProfileIsStored ==
  [][(PredictionFinishes /\ lastBest'.found) =>
       /\ Len(predictionHistory') = Len(predictionHistory) + 1
       /\ InStore(userProfiles', lastBest'.id,
                  predictionHistory'[Len(predictionHistory')].predictedUser)
       /\ predictionResult'.user # <<>> =>
            InStore(userProfiles', lastBest'.id, predictionResult'.user)]_vars

(***************************************************************************)
(* Predictions in flight.                                                  *)
(***************************************************************************)
\* C27: at most one App prediction is in flight: from the start of a
\* predictUser call that passed the 75-event gate to its completion,
\* isGenerating is true and no second call starts; isGenerating is false
\* again after every call completes.
C27_OnePredictionInFlight ==
  [][/\ isGenerating = pending.active
     /\ PredictionStarts =>
          /\ Len(keyEvents) >= MINIMUM_SAMPLE_SIZE
          /\ isGenerating'
          /\ calls'.predicted = calls.predicted + 1
     /\ pending.active =>
          /\ calls'.predicted = calls.predicted
          /\ pending'.active => (pending' = pending /\ isGenerating')
     /\ PredictionFinishes => ~isGenerating']_vars
C27_Witness ==
  /\ isGenerating
  /\ pending.active
  /\ calls.predicted = 2
  /\ Len(predictionHistory) = 1
  /\ mode = "predict"
  /\ Len(keyEvents) > MINIMUM_SAMPLE_SIZE

(***************************************************************************)
(* Predict mode and the gallery.                                           *)
(***************************************************************************)
\* C28: in every reachable state of the App, mode = "predict" implies that
\* at least one profile is stored, also after deleteProfile calls.
C28_PredictModeHasProfiles == mode = "predict" => Len(userProfiles) >= 1

(***************************************************************************)
(* The HTTP service's profile store.                                       *)
(***************************************************************************)
PredictAccepted == "match" \in DOMAIN response /\ response.status = 200

\* C29: no endpoint writes the HTTP service's profile store: after any
\* sequence of /api/analyze and /api/predict requests the store is empty, and
\* every accepted /api/predict request responds with match = null and
\* confidence = 0.
C29_ServerStoreStaysEmpty ==
  /\ profiles = <<>>
  /\ PredictAccepted => (response.match = NullMatch /\ response.confidence = Zero)
C29_Witness ==
  /\ plan = ServerPlan
  /\ calls.requests = MaxRequests
  /\ lastCall.op = "/api/predict"
  /\ lastCall.events = SERVER_MINIMUM
  /\ PredictAccepted
  /\ response.match.isNull

(***************************************************************************)
(* A pattern compared with itself.                                         *)
(***************************************************************************)
SelfCompared ==
  /\ lastCall.op = "comparePatterns"
  /\ patternA = patternB
  /\ IsDefinedFinite(patternA)
  /\ Gt(patternA.averageSpeed, Zero)
  /\ Gt(patternA.burstSpeed, Zero)
\* min(1, v / 20)
VocabularyShare(pattern) == MathMin(One, Div(Num(VocabSize(pattern)), Num(20)))
TimingAndStyleAreOne(s) ==
  /\ s.speedSimilarity = One
  /\ s.rhythmSimilarity = One
  /\ s.timingSimilarity = One
  /\ s.styleSimilarity = One

\* C30 as stated: for a pattern p with finite fields, averageSpeed > 0 and
\* burstSpeed > 0, comparePatterns(p, p) is min(1, v/20) for v distinct
\* characters, all five sub-scores being exactly 1.
C30_SelfMatchHasAllSubScoresOne ==
  SelfCompared =>
    \E s \in {SubScores(patternA, patternB)} :
      /\ Near(similarity, VocabularyShare(patternA))
      /\ TimingAndStyleAreOne(s)
      /\ s.keyDistSimilarity = One

\* C30 amended: for such a pattern returned by calculateTypingPattern,
\* comparePatterns(p, p) is min(1, v/20) up to rounding; the speed, rhythm,
\* timing and style sub-scores are exactly 1, and the key-distribution
\* sub-score is 1 when v >= 1 and 0 when v = 0.
C30_SelfMatchIsVocabularyShare ==
  SelfCompared =>
    \E s \in {SubScores(patternA, patternB)} :
      /\ Near(similarity, VocabularyShare(patternA))
      /\ TimingAndStyleAreOne(s)
      /\ s.keyDistSimilarity = IF VocabSize(patternA) >= 1 THEN One ELSE Zero
C30_Witness ==
  /\ SelfCompared
  /\ VocabSize(patternA) = 0
  /\ similarity = Zero
C30_WitnessBelowTwenty ==
  /\ SelfCompared
  /\ VocabSize(patternA) \in 1..19
  /\ Lt(similarity, One)
C30_WitnessTwentyOrMore ==
  /\ SelfCompared
  /\ VocabSize(patternA) >= 20
  /\ similarity = One

====
